---------------------------- MODULE Spec2Model ----------------------------
(***************************************************************************)
(* The Routing Information Base of NFD (daemon/rib/rib.cpp): the prefix    *)
(* table with its parent/children links, the face index, the route count   *)
(* and the single-in-flight update queue in front of the FIB updater.      *)
(*                                                                         *)
(* One action is one handler running to completion on the event loop:      *)
(* beginApplyUpdate, beginRemoveFace, beginRemoveFailedFaces, the two FIB  *)
(* updater callbacks and the expiration timer.  Observers and the          *)
(* onSuccess/onFailure callbacks run inside the handler that fires them;   *)
(* what they submit re-entrantly is an input of that handler.              *)
(***************************************************************************)
EXTENDS Integers, Sequences, FiniteSets, TLC

VARIABLES
  m_rib,                \* Rib::m_rib: Name -> RibEntry (the entries in the table)
  m_faceEntries,        \* Rib::m_faceEntries: multimap faceId -> entry, in iteration order
  m_nItems,             \* Rib::m_nItems
  m_updateBatches,      \* Rib::m_updateBatches: the update queue
  m_isUpdateInProgress, \* Rib::m_isUpdateInProgress: the in-flight flag
  fibCalls,             \* computeAndSendFibUpdates calls not yet answered
  scheduler,            \* expiration events scheduled and neither fired nor cancelled
  hist,                 \* counters over the run: submitted, dispatched, answered, committed;
                        \* refreshed: the events superseded by a committed REGISTER;
                        \* down: the last face that went down over an idle Rib
  last                  \* what the last handler did: callbacks, observer events

vars == <<m_rib, m_faceEntries, m_nItems, m_updateBatches, m_isUpdateInProgress,
          fibCalls, scheduler, hist, last>>

-----------------------------------------------------------------------------
(* Names *)

\* a null shared_ptr<RibEntry>: a name no entry has
nullptr == <<-1>>

\* Name::isPrefixOf
isPrefixOf(p, n) == Len(p) <= Len(n) /\ SubSeq(n, 1, Len(p)) = p

\* Name::getPrefix
getPrefix(n, i) == SubSeq(n, 1, i)

isStrictPrefixOf(p, n) == isPrefixOf(p, n) /\ p # n

\* Name::compare < 0, the order of the std::map m_rib
RECURSIVE NameLess(_, _)
NameLess(a, b) ==
  IF a = <<>> THEN b # <<>>
  ELSE IF b = <<>> THEN FALSE
  ELSE IF Head(a) # Head(b) THEN Head(a) < Head(b)
  ELSE NameLess(Tail(a), Tail(b))

\* the keys of a table in the map's iteration order
RECURSIVE SortedNames(_)
SortedNames(S) ==
  IF S = {} THEN <<>>
  ELSE LET m == CHOOSE x \in S : \A y \in S \ {x} : NameLess(x, y)
       IN  <<m>> \o SortedNames(S \ {m})

-----------------------------------------------------------------------------
(* Route and RibEntry *)

REGISTER == "REGISTER"
UNREGISTER == "UNREGISTER"
REMOVE_FACE == "REMOVE_FACE"

CHILD_INHERIT == "CHILD_INHERIT"
CAPTURE == "CAPTURE"

\* a route without an expiration event
NoEvent == 0

mkRoute(f, o, c, fl, ev) ==
  [faceId |-> f, origin |-> o, cost |-> c, flags |-> fl, ev |-> ev]

\* two routes are the same route iff faceId and origin match
sameRoute(r, q) == r.faceId = q.faceId /\ r.origin = q.origin

\* RibEntry::findRoute: the position of the route with this key, 0 for end()
findRoute(routes, r) ==
  IF \E i \in 1..Len(routes) : sameRoute(routes[i], r)
  THEN CHOOSE i \in 1..Len(routes) :
         sameRoute(routes[i], r) /\ \A j \in 1..(i-1) : ~sameRoute(routes[j], r)
  ELSE 0

\* RibEntry::insertRoute: append unless the key is present
insertRoute(routes, r) ==
  LET i == findRoute(routes, r)
  IN  IF i = 0
      THEN [routes |-> Append(routes, r), pos |-> Len(routes) + 1, didInsert |-> TRUE]
      ELSE [routes |-> routes, pos |-> i, didInsert |-> FALSE]

\* RibEntry::eraseRoute
eraseRoute(routes, i) ==
  SubSeq(routes, 1, i - 1) \o SubSeq(routes, i + 1, Len(routes))

\* RibEntry::hasFaceId
hasFaceId(routes, f) == \E i \in 1..Len(routes) : routes[i].faceId = f

\* RibEntry::hasCapture
hasCapture(routes) == \E i \in 1..Len(routes) : CAPTURE \in routes[i].flags

\* a RibEntry as make_shared<RibEntry>() and setName leave it
newEntry(name) ==
  [name |-> name, routes |-> <<>>, parent |-> nullptr, children |-> <<>>,
   inheritedRoutes |-> {}]

RemoveAll(seq, x) == SelectSeq(seq, LAMBDA y : y # x)

\* RibEntry::addChild on the entry named p
addChild(rib, p, c) ==
  [rib EXCEPT ![p].children = Append(@, c), ![c].parent = p]

\* RibEntry::removeChild on the entry named p
removeChild(rib, p, c) ==
  [rib EXCEPT ![p].children = RemoveAll(@, c), ![c].parent = nullptr]

-----------------------------------------------------------------------------
(* The Rib and its collaborators as one record, threaded through a handler:   *)
(*   rib, faceEntries, nItems, queue, inProgress  the Rib's members           *)
(*   calls   the FIB updater's unanswered computeAndSendFibUpdates calls      *)
(*   sched   the scheduler's pending expiration events                        *)
(*   hist    counters: submitted, dispatched, answered, committed, refreshed  *)
(*   fired   the observer events of this handler, in firing order             *)
(*   cbs     the onSuccess/onFailure invocations of this handler              *)
(*   react   what the observers submit re-entrantly when next fired           *)
(*   erased  the RibEntry objects this handler erased from the table          *)
(*   removedBy  the expiration event behind the route removal of this handler *)

\* the state a handler starts from
Here(react) ==
  [rib |-> m_rib, faceEntries |-> m_faceEntries, nItems |-> m_nItems,
   queue |-> m_updateBatches, inProgress |-> m_isUpdateInProgress,
   calls |-> fibCalls, sched |-> scheduler, hist |-> hist,
   fired |-> <<>>, cbs |-> <<>>, react |-> react, erased |-> <<>>,
   removedBy |-> NoEvent]

\* Rib::addUpdateToQueue pushing to the front of the queue
addUpdateToQueue_Front(s, update, cb, src, supersedes) ==
  LET item == [update |-> update, cb |-> cb, seq |-> s.hist.submitted + 1,
               src |-> src, supersedes |-> supersedes]
  IN  [s EXCEPT !.queue = <<item>> \o @, !.hist.submitted = @ + 1]

\* Rib::addUpdateToQueue; cb: whether the caller gave onSuccess/onFailure.
\* src (the expiration event behind the update) and supersedes (the pending event
\* of the route a REGISTER refreshes) only label the item.
addUpdateToQueue(s, update, cb, src, supersedes) ==
  LET item == [update |-> update, cb |-> cb, seq |-> s.hist.submitted + 1,
               src |-> src, supersedes |-> supersedes]
  IN  [s EXCEPT !.queue = Append(@, item), !.hist.submitted = @ + 1]

\* Rib::sendBatchFromQueue without the test of the in-flight flag
sendBatchFromQueue_NoGate(s) ==
  IF s.queue = <<>>
  THEN s
  ELSE [s EXCEPT !.inProgress = TRUE,
                 !.queue = Tail(@),
                 !.calls = Append(@, Head(s.queue)),
                 !.hist.dispatched = Head(s.queue).seq]

\* Rib::sendBatchFromQueue
sendBatchFromQueue(s) ==
  IF s.queue = <<>> \/ s.inProgress
  THEN s
  ELSE [s EXCEPT !.inProgress = TRUE,
                 !.queue = Tail(@),
                 !.calls = Append(@, Head(s.queue)),
                 !.hist.dispatched = Head(s.queue).seq]

\* Rib::beginApplyUpdate
beginApplyUpdate(s, update, cb, src, supersedes) ==
  sendBatchFromQueue(addUpdateToQueue(s, update, cb, src, supersedes))

\* what a subscriber's beginApplyUpdate left behind when it returned into the
\* signal: the number its update got, where the update is, and whether anything
\* was dispatched or applied meanwhile (s: before the call, s2: after)
submission(s, s2) ==
  [seq |-> s2.hist.submitted,
   queuedLast |-> s2.queue # <<>> /\ s2.queue[Len(s2.queue)].seq = s2.hist.submitted,
   dispatched |-> s2.hist.dispatched # s.hist.dispatched \/ s2.calls # s.calls,
   applied |-> s2.rib # s.rib \/ s2.nItems # s.nItems
                 \/ s2.faceEntries # s.faceEntries,
   inProgress |-> s2.inProgress]

\* the Rib as a subscriber finds it when a signal fires
seen(s) == [rib |-> s.rib, nItems |-> s.nItems, faceEntries |-> s.faceEntries]

\* a signal whose subscriber's update goes to the FIB updater at once
fire_Dispatch(s, kind, name, route) ==
  LET ev == [kind |-> kind, name |-> name, route |-> route, seen |-> seen(s)]
  IN  IF s.react = <<>>
      THEN [s EXCEPT !.fired = Append(@, ev @@ [sub |-> <<>>])]
      ELSE LET s1 == [s EXCEPT !.react = Tail(@)]
               s2 == sendBatchFromQueue_NoGate(
                       addUpdateToQueue(s1, Head(s.react).update, Head(s.react).cb,
                                        NoEvent, NoEvent))
           IN  [s2 EXCEPT !.fired = Append(@, ev @@ [sub |-> submission(s1, s2)])]

\* a signal (afterInsertEntry, afterAddRoute, beforeRemoveRoute, afterEraseEntry)
\* reaching its subscribers, who may call beginApplyUpdate from inside the
\* callback; the event keeps the Rib as the subscriber found it (seen) and what
\* that call left behind (sub)
fire(s, kind, name, route) ==
  LET ev == [kind |-> kind, name |-> name, route |-> route, seen |-> seen(s)]
  IN  IF s.react = <<>>
      THEN [s EXCEPT !.fired = Append(@, ev @@ [sub |-> <<>>])]
      ELSE LET s1 == [s EXCEPT !.react = Tail(@)]
               s2 == beginApplyUpdate(s1, Head(s.react).update, Head(s.react).cb,
                                      NoEvent, NoEvent)
           IN  [s2 EXCEPT !.fired = Append(@, ev @@ [sub |-> submission(s1, s2)])]

\* Rib::findParent
RECURSIVE findParentFrom(_, _, _)
findParentFrom(rib, prefix, i) ==
  IF i < 0 THEN nullptr
  ELSE IF getPrefix(prefix, i) \in DOMAIN rib THEN getPrefix(prefix, i)
  ELSE findParentFrom(rib, prefix, i - 1)

findParent(rib, prefix) == findParentFrom(rib, prefix, Len(prefix) - 1)

\* the loop of Rib::findDescendants: walk the map from position i while the
\* names have prefix as a prefix
RECURSIVE descendantsFrom(_, _, _)
descendantsFrom(order, prefix, i) ==
  IF i > Len(order) THEN <<>>
  ELSE IF isPrefixOf(prefix, order[i])
       THEN <<order[i]>> \o descendantsFrom(order, prefix, i + 1)
       ELSE <<>>

\* Rib::findDescendants
findDescendants(rib, prefix) ==
  IF prefix \notin DOMAIN rib THEN <<>>
  ELSE LET order == SortedNames(DOMAIN rib)
           at == CHOOSE i \in 1..Len(order) : order[i] = prefix
       IN  descendantsFrom(order, prefix, at + 1)

\* m_faceEntries.emplace: behind the last item whose key is not greater
emplace(fe, f, name) ==
  LET k == Cardinality({i \in 1..Len(fe) : fe[i].faceId <= f})
  IN  SubSeq(fe, 1, k) \o <<[faceId |-> f, name |-> name, live |-> TRUE]>>
        \o SubSeq(fe, k + 1, Len(fe))

\* the loop of Rib::insert without parent->removeChild(child)
RECURSIVE stealChildren_NoRemove(_, _, _, _)
stealChildren_NoRemove(rib, prefix, parent, children) ==
  IF children = <<>> THEN rib
  ELSE LET child == Head(children)
           r1 == IF rib[child].parent = parent
                 THEN addChild(rib, prefix, child)
                 ELSE rib
       IN  stealChildren_NoRemove(r1, prefix, parent, Tail(children))

\* the loop of Rib::insert that moves to the new entry those descendants whose
\* parent is the new entry's parent
RECURSIVE stealChildren(_, _, _, _)
stealChildren(rib, prefix, parent, children) ==
  IF children = <<>> THEN rib
  ELSE LET child == Head(children)
           r1 == IF rib[child].parent = parent
                 THEN addChild(IF parent # nullptr
                               THEN removeChild(rib, parent, child)
                               ELSE rib,
                               prefix, child)
                 ELSE rib
       IN  stealChildren(r1, prefix, parent, Tail(children))

\* the signals of rib.hpp; the entry signals carry a name and no route
afterInsertEntry(s, name) == fire(s, "afterInsertEntry", name, <<>>)
afterEraseEntry(s, name) == fire(s, "afterEraseEntry", name, <<>>)
afterAddRoute(s, name, route) == fire(s, "afterAddRoute", name, route)
beforeRemoveRoute(s, name, route) == fire(s, "beforeRemoveRoute", name, route)

\* Route::cancelExpirationEvent
cancelExpirationEvent(sched, route) == {e \in sched : e.id # route.ev}

\* Rib::insert, the branch of an existing name prefix, counting a refresh as a
\* new route
insertExisting_CountRefresh(s, prefix, route) ==
  LET entry == s.rib[prefix]
      ins == insertRoute(entry.routes, route)
  IN  IF ins.didInsert
      THEN LET s1 == [s EXCEPT !.rib[prefix].routes = ins.routes,
                               !.nItems = @ + 1]
               s2 == afterAddRoute(s1, prefix, route)
           IN  [s2 EXCEPT !.faceEntries = emplace(@, route.faceId, prefix)]
      ELSE LET old == entry.routes[ins.pos]
               s1 == IF old.ev # NoEvent
                     THEN [s EXCEPT !.sched = cancelExpirationEvent(@, old)]
                     ELSE s
           IN  [s1 EXCEPT !.rib[prefix].routes[ins.pos] = route, !.nItems = @ + 1]

\* Rib::insert, the branch of an existing name prefix, overwriting the route
\* without cancelling its expiration event
insertExisting_NoCancel(s, prefix, route) ==
  LET entry == s.rib[prefix]
      ins == insertRoute(entry.routes, route)
  IN  IF ins.didInsert
      THEN LET s1 == [s EXCEPT !.rib[prefix].routes = ins.routes,
                               !.nItems = @ + 1]
               s2 == afterAddRoute(s1, prefix, route)
           IN  [s2 EXCEPT !.faceEntries = emplace(@, route.faceId, prefix)]
      ELSE [s EXCEPT !.rib[prefix].routes[ins.pos] = route]

\* Rib::insert, the branch of an existing name prefix, firing afterAddRoute
\* also when the route was there and is overwritten
insertExisting_FireRefresh(s, prefix, route) ==
  LET entry == s.rib[prefix]
      ins == insertRoute(entry.routes, route)
  IN  IF ins.didInsert
      THEN LET s1 == [s EXCEPT !.rib[prefix].routes = ins.routes,
                               !.nItems = @ + 1]
               s2 == afterAddRoute(s1, prefix, route)
           IN  [s2 EXCEPT !.faceEntries = emplace(@, route.faceId, prefix)]
      ELSE LET old == entry.routes[ins.pos]
               s1 == IF old.ev # NoEvent
                     THEN [s EXCEPT !.sched = cancelExpirationEvent(@, old)]
                     ELSE s
           IN  afterAddRoute([s1 EXCEPT !.rib[prefix].routes[ins.pos] = route],
                             prefix, route)

\* Rib::insert, the branch of an existing name prefix
insertExisting(s, prefix, route) ==
  LET entry == s.rib[prefix]
      ins == insertRoute(entry.routes, route)
  IN  IF ins.didInsert
      THEN LET s1 == [s EXCEPT !.rib[prefix].routes = ins.routes,
                               !.nItems = @ + 1]
               s2 == afterAddRoute(s1, prefix, route)
           IN  [s2 EXCEPT !.faceEntries = emplace(@, route.faceId, prefix)]
      ELSE LET old == entry.routes[ins.pos]
               s1 == IF old.ev # NoEvent
                     THEN [s EXCEPT !.sched = cancelExpirationEvent(@, old)]
                     ELSE s
           IN  [s1 EXCEPT !.rib[prefix].routes[ins.pos] = route]

\* Rib::insert, the branch of a new name prefix
insertNew(s, prefix, route) ==
  LET entry == [newEntry(prefix) EXCEPT !.routes = insertRoute(<<>>, route).routes]
      rib1 == [n \in DOMAIN s.rib \cup {prefix} |->
                 IF n = prefix THEN entry ELSE s.rib[n]]
      parent == findParent(rib1, prefix)
      rib2 == IF parent # nullptr THEN addChild(rib1, parent, prefix) ELSE rib1
      children == findDescendants(rib2, prefix)
      rib3 == stealChildren(rib2, prefix, parent, children)
      s1 == [s EXCEPT !.rib = rib3,
                      !.nItems = @ + 1,
                      !.faceEntries = emplace(@, route.faceId, prefix)]
  IN  afterAddRoute(afterInsertEntry(s1, prefix), prefix, route)

\* Rib::insert
insert(s, prefix, route) ==
  IF prefix \in DOMAIN s.rib
  THEN insertExisting(s, prefix, route)
  ELSE insertNew(s, prefix, route)

\* the loop of Rib::eraseEntry without parent->addChild(child)
RECURSIVE handOverChildren_Orphan(_, _, _, _)
handOverChildren_Orphan(rib, name, parent, children) ==
  IF children = <<>> THEN rib
  ELSE handOverChildren_Orphan(removeChild(rib, name, Head(children)), name, parent,
                               Tail(children))

\* the loop of Rib::eraseEntry that hands the erased entry's children to its parent
RECURSIVE handOverChildren(_, _, _, _)
handOverChildren(rib, name, parent, children) ==
  IF children = <<>> THEN rib
  ELSE LET child == Head(children)
           r1 == removeChild(rib, name, child)
           r2 == IF parent # nullptr THEN addChild(r1, parent, child) ELSE r1
       IN  handOverChildren(r2, name, parent, Tail(children))

\* Rib::eraseEntry without parent->removeChild(entry)
eraseEntry_NoDetach(s, name) ==
  IF name \notin DOMAIN s.rib THEN s
  ELSE LET parent == s.rib[name].parent
           rib2 == handOverChildren(s.rib, name, parent, s.rib[name].children)
           rib3 == [n \in DOMAIN rib2 \ {name} |-> rib2[n]]
           fe == [i \in 1..Len(s.faceEntries) |->
                    IF s.faceEntries[i].name = name
                    THEN [s.faceEntries[i] EXCEPT !.live = FALSE]
                    ELSE s.faceEntries[i]]
       IN  afterEraseEntry([s EXCEPT !.rib = rib3, !.faceEntries = fe,
                                     !.erased = Append(@, rib2[name])],
                           name)

\* Rib::eraseEntry.  The erased RibEntry object lives on wherever a shared_ptr
\* still names it: the face index items that name it are no longer live.
eraseEntry(s, name) ==
  IF name \notin DOMAIN s.rib THEN s
  ELSE LET parent == s.rib[name].parent
           rib1 == IF parent # nullptr THEN removeChild(s.rib, parent, name) ELSE s.rib
           rib2 == handOverChildren(rib1, name, parent, rib1[name].children)
           rib3 == [n \in DOMAIN rib2 \ {name} |-> rib2[n]]
           fe == [i \in 1..Len(s.faceEntries) |->
                    IF s.faceEntries[i].name = name
                    THEN [s.faceEntries[i] EXCEPT !.live = FALSE]
                    ELSE s.faceEntries[i]]
       IN  afterEraseEntry([s EXCEPT !.rib = rib3, !.faceEntries = fe,
                                     !.erased = Append(@, rib2[name])],
                           name)

\* the loop of Rib::erase over equal_range(faceId): drop the first item that is
\* this entry
eraseFaceEntry(fe, f, name) ==
  LET hits == {i \in 1..Len(fe) : fe[i].faceId = f /\ fe[i].name = name /\ fe[i].live}
  IN  IF hits = {} THEN fe
      ELSE LET i == CHOOSE x \in hits : \A y \in hits : x <= y
           IN  SubSeq(fe, 1, i - 1) \o SubSeq(fe, i + 1, Len(fe))

\* Rib::erase leaving an entry whose route list became empty in the table
erase_KeepEmpty(s, prefix, route, src) ==
  IF prefix \notin DOMAIN s.rib THEN s
  ELSE LET pos == findRoute(s.rib[prefix].routes, route)
       IN  IF pos = 0 THEN s
           ELSE LET s1 == beforeRemoveRoute(s, prefix, s.rib[prefix].routes[pos])
                    routes == eraseRoute(s1.rib[prefix].routes, pos)
                    s2 == [s1 EXCEPT !.rib[prefix].routes = routes,
                                     !.nItems = @ - 1,
                                     !.removedBy = src]
                IN  IF ~hasFaceId(routes, route.faceId)
                    THEN [s2 EXCEPT !.faceEntries =
                                      eraseFaceEntry(@, route.faceId, prefix)]
                    ELSE s2

\* Rib::erase firing beforeRemoveRoute once the route is out of the list
erase_FireAfter(s, prefix, route, src) ==
  IF prefix \notin DOMAIN s.rib THEN s
  ELSE LET pos == findRoute(s.rib[prefix].routes, route)
       IN  IF pos = 0 THEN s
           ELSE LET routes == eraseRoute(s.rib[prefix].routes, pos)
                    s1 == [s EXCEPT !.rib[prefix].routes = routes,
                                    !.nItems = @ - 1,
                                    !.removedBy = src]
                    s2 == beforeRemoveRoute(s1, prefix, s.rib[prefix].routes[pos])
                    s3 == IF ~hasFaceId(routes, route.faceId)
                          THEN [s2 EXCEPT !.faceEntries =
                                            eraseFaceEntry(@, route.faceId, prefix)]
                          ELSE s2
                IN  IF routes = <<>> THEN eraseEntry(s3, prefix) ELSE s3

\* Rib::erase counting down nItems for a route the entry does not hold
erase_CountMiss(s, prefix, route, src) ==
  IF prefix \notin DOMAIN s.rib THEN s
  ELSE LET pos == findRoute(s.rib[prefix].routes, route)
       IN  IF pos = 0 THEN [s EXCEPT !.nItems = @ - 1]
           ELSE LET s1 == beforeRemoveRoute(s, prefix, s.rib[prefix].routes[pos])
                    routes == eraseRoute(s1.rib[prefix].routes, pos)
                    s2 == [s1 EXCEPT !.rib[prefix].routes = routes,
                                     !.nItems = @ - 1,
                                     !.removedBy = src]
                    s3 == IF ~hasFaceId(routes, route.faceId)
                          THEN [s2 EXCEPT !.faceEntries =
                                            eraseFaceEntry(@, route.faceId, prefix)]
                          ELSE s2
                IN  IF routes = <<>> THEN eraseEntry(s3, prefix) ELSE s3

\* Rib::erase; src is the expiration event behind the update, if any
erase(s, prefix, route, src) ==
  IF prefix \notin DOMAIN s.rib THEN s
  ELSE LET pos == findRoute(s.rib[prefix].routes, route)
       IN  IF pos = 0 THEN s
           ELSE LET s1 == beforeRemoveRoute(s, prefix, s.rib[prefix].routes[pos])
                    routes == eraseRoute(s1.rib[prefix].routes, pos)
                    s2 == [s1 EXCEPT !.rib[prefix].routes = routes,
                                     !.nItems = @ - 1,
                                     !.removedBy = src]
                    s3 == IF ~hasFaceId(routes, route.faceId)
                          THEN [s2 EXCEPT !.faceEntries =
                                            eraseFaceEntry(@, route.faceId, prefix)]
                          ELSE s2
                IN  IF routes = <<>> THEN eraseEntry(s3, prefix) ELSE s3

\* sortRoutes: the order of a RouteSet
sortRoutes(lhs, rhs) == lhs.faceId < rhs.faceId

\* RouteSet::insert, a std::set under sortRoutes: a route is equivalent to one
\* of the set when neither sorts before the other, and is then not inserted
insertRouteSet(set, route) ==
  IF \E i \in 1..Len(set) : ~sortRoutes(set[i], route) /\ ~sortRoutes(route, set[i])
  THEN set
  ELSE LET k == Cardinality({i \in 1..Len(set) : sortRoutes(set[i], route)})
       IN  SubSeq(set, 1, k) \o <<route>> \o SubSeq(set, k + 1, Len(set))

\* the for loop of Rib::getAncestorRoutes over the routes of one ancestor
RECURSIVE collectChildInherit(_, _, _)
collectChildInherit(set, routes, i) ==
  IF i > Len(routes) THEN set
  ELSE collectChildInherit(IF CHILD_INHERIT \in routes[i].flags
                           THEN insertRouteSet(set, routes[i])
                           ELSE set,
                           routes, i + 1)

\* the while loop of Rib::getAncestorRoutes going on above a capturing ancestor
RECURSIVE ancestorWalk_PastCapture(_, _, _)
ancestorWalk_PastCapture(rib, parent, set) ==
  IF parent = nullptr THEN set
  ELSE ancestorWalk_PastCapture(rib, rib[parent].parent,
                                collectChildInherit(set, rib[parent].routes, 1))

\* the while loop of Rib::getAncestorRoutes
RECURSIVE ancestorWalk(_, _, _)
ancestorWalk(rib, parent, set) ==
  IF parent = nullptr THEN set
  ELSE LET s1 == collectChildInherit(set, rib[parent].routes, 1)
       IN  IF hasCapture(rib[parent].routes) THEN s1
           ELSE ancestorWalk(rib, rib[parent].parent, s1)

\* Rib::getAncestorRoutes(const RibEntry&)
getAncestorRoutes(rib, entry) == ancestorWalk(rib, rib[entry].parent, <<>>)

\* Rib::getAncestorRoutes(const Name&)
getAncestorRoutesOfName(rib, name) == ancestorWalk(rib, findParent(rib, name), <<>>)

\* RibEntry::addInheritedRoute and RibEntry::removeInheritedRoute
addInheritedRoute(inherited, route) == inherited \cup {route}
removeInheritedRoute(inherited, route) == {r \in inherited : ~sameRoute(r, route)}

\* Rib::modifyInheritedRoutes
RECURSIVE modifyInheritedRoutes(_, _)
modifyInheritedRoutes(rib, inheritedRoutes) ==
  IF inheritedRoutes = <<>> THEN rib
  ELSE LET u == Head(inheritedRoutes)
           r1 == CASE u.action = REGISTER ->
                        [rib EXCEPT ![u.name].inheritedRoutes =
                                      addInheritedRoute(@, u.route)]
                   [] u.action = UNREGISTER ->
                        [rib EXCEPT ![u.name].inheritedRoutes =
                                      removeInheritedRoute(@, u.route)]
                   [] OTHER -> rib
       IN  modifyInheritedRoutes(r1, Tail(inheritedRoutes))

\* the loop of Rib::onFibUpdateSuccess over the batch, which holds one update
applyBatch(s, item) ==
  LET update == item.update
  IN  IF update.action = REGISTER
      THEN insert(s, update.name, update.route)
      ELSE erase(s, update.name, update.route, item.src)

\* a manager callback (onSuccess or onFailure) being called, when the caller gave
\* one; cbReact is what the callback submits re-entrantly
invoke(s, item, cb, reply, cbReact) ==
  IF ~item.cb THEN s
  ELSE LET s1 == [s EXCEPT !.cbs = Append(@, [cb |-> cb, seq |-> item.seq,
                                               reply |-> reply])]
       IN  IF cbReact = <<>> THEN s1
           ELSE beginApplyUpdate(s1, Head(cbReact).update, Head(cbReact).cb,
                                 NoEvent, NoEvent)

\* Rib::onFibUpdateSuccess after the batch is applied
finishSuccess(s, item, inheritedRoutes, cbReact) ==
  LET s2 == [s EXCEPT !.rib = modifyInheritedRoutes(@, inheritedRoutes)]
      s3 == [s2 EXCEPT !.inProgress = FALSE]
      s4 == invoke(s3, item, "onSuccess", <<>>, cbReact)
  IN  sendBatchFromQueue(s4)

\* Rib::onFibUpdateSuccess
onFibUpdateSuccess(s, item, inheritedRoutes, cbReact) ==
  finishSuccess(applyBatch(s, item), item, inheritedRoutes, cbReact)

\* Rib::onFibUpdateFailure putting the failed update back in the queue
onFibUpdateFailure_Retry(s, item, reply, cbReact) ==
  LET s1 == [s EXCEPT !.inProgress = FALSE, !.queue = Append(@, item)]
      s2 == invoke(s1, item, "onFailure", reply, cbReact)
  IN  sendBatchFromQueue(s2)

\* Rib::onFibUpdateFailure without the closing sendBatchFromQueue
onFibUpdateFailure_NoAdvance(s, item, reply, cbReact) ==
  LET s1 == [s EXCEPT !.inProgress = FALSE]
  IN  invoke(s1, item, "onFailure", reply, cbReact)

\* Rib::onFibUpdateFailure
onFibUpdateFailure(s, item, reply, cbReact) ==
  LET s1 == [s EXCEPT !.inProgress = FALSE]
      s2 == invoke(s1, item, "onFailure", reply, cbReact)
  IN  sendBatchFromQueue(s2)

\* Rib::enqueueRemoveFace stopping at the first route with this faceId
RECURSIVE enqueueRemoveFaceFrom_First(_, _, _, _, _)
enqueueRemoveFaceFrom_First(s, name, routes, faceId, i) ==
  IF i > Len(routes) THEN s
  ELSE IF routes[i].faceId # faceId
       THEN enqueueRemoveFaceFrom_First(s, name, routes, faceId, i + 1)
       ELSE addUpdateToQueue(s, [action |-> REMOVE_FACE, name |-> name,
                                 route |-> routes[i]],
                             FALSE, NoEvent, NoEvent)

\* Rib::enqueueRemoveFace: one REMOVE_FACE per route of the entry with this faceId
RECURSIVE enqueueRemoveFaceFrom(_, _, _, _, _)
enqueueRemoveFaceFrom(s, name, routes, faceId, i) ==
  IF i > Len(routes) THEN s
  ELSE LET s1 == IF routes[i].faceId # faceId THEN s
                 ELSE addUpdateToQueue(s, [action |-> REMOVE_FACE, name |-> name,
                                           route |-> routes[i]],
                                       FALSE, NoEvent, NoEvent)
       IN  enqueueRemoveFaceFrom(s1, name, routes, faceId, i + 1)

\* the routes of the RibEntry object a face index item names: an entry erased
\* from the table was erased because its route list was empty
entryRoutes(s, item) ==
  IF item.live THEN s.rib[item.name].routes ELSE <<>>

enqueueRemoveFace(s, item, faceId) ==
  enqueueRemoveFaceFrom(s, item.name, entryRoutes(s, item), faceId, 1)

\* the loops of Rib::beginRemoveFace and Rib::beginRemoveFailedFaces over the
\* face index, from item i on; skip: the faceIds left alone
RECURSIVE removeFacesFrom(_, _, _)
removeFacesFrom(s, skip, i) ==
  IF i > Len(s.faceEntries) THEN s
  ELSE LET it == s.faceEntries[i]
           s1 == IF it.faceId \in skip THEN s ELSE enqueueRemoveFace(s, it, it.faceId)
       IN  removeFacesFrom(s1, skip, i + 1)

\* Rib::beginRemoveFace
beginRemoveFace(s, faceId) ==
  LET others == {s.faceEntries[i].faceId : i \in 1..Len(s.faceEntries)} \ {faceId}
  IN  sendBatchFromQueue(removeFacesFrom(s, others, 1))

\* Rib::beginRemoveFailedFaces going on to enqueueRemoveFace for a faceId of
\* activeFaceIds instead of skipping it
beginRemoveFailedFaces_NoSkip(s, activeFaceIds) ==
  sendBatchFromQueue(removeFacesFrom(s, {}, 1))

\* Rib::beginRemoveFailedFaces
beginRemoveFailedFaces(s, activeFaceIds) ==
  sendBatchFromQueue(removeFacesFrom(s, activeFaceIds, 1))

\* Rib::onRouteExpiration, run by the scheduler for event e
onRouteExpiration(s, e) ==
  beginApplyUpdate(s, [action |-> UNREGISTER, name |-> e.name, route |-> e.route],
                   FALSE, e.id, NoEvent)

-----------------------------------------------------------------------------
(* HostToGatewayReadvertisePolicy.  Names here are sequences of component      *)
(* strings; an optional<ReadvertiseAction> without a value is nullopt.        *)

nullopt == <<>>

\* the reserved first components: localhost and localhop are never advertised
ReservedComponents == {"localhost", "localhop"}

\* the component ignored at the end of an identity name
IGNORE_COMPONENT == "nrd"

\* ndn::security::signingByIdentity
signingByIdentity(identity) == [signingByIdentity |-> identity]

\* an identity name without a trailing nrd component
dropIgnored(identity) ==
  IF identity # <<>> /\ identity[Len(identity)] = IGNORE_COMPONENT
  THEN SubSeq(identity, 1, Len(identity) - 1)
  ELSE identity

\* the search taking the identity names as they are, a trailing nrd included
RECURSIVE shortestIdentity_KeepNrd(_, _)
shortestIdentity_KeepNrd(identities, found) ==
  IF identities = {} THEN found
  ELSE LET identity == CHOOSE x \in identities : TRUE
       IN  shortestIdentity_KeepNrd(identities \ {identity},
                                    IF isPrefixOf(identity, found.prefix)
                                    THEN [prefix |-> identity, identity |-> identity,
                                          isFound |-> TRUE]
                                    ELSE found)

\* the search for the shortest identity that is a prefix of the route's name:
\* go through the identities, and take one whenever its name is a prefix of
\* the prefix found so far
RECURSIVE shortestIdentity(_, _)
shortestIdentity(identities, found) ==
  IF identities = {} THEN found
  ELSE LET identity == CHOOSE x \in identities : TRUE
           prefix == dropIgnored(identity)
       IN  shortestIdentity(identities \ {identity},
                            IF isPrefixOf(prefix, found.prefix)
                            THEN [prefix |-> prefix, identity |-> identity,
                                  isFound |-> TRUE]
                            ELSE found)

\* handleNewRoute without the test of the reserved components
handleNewRoute_NoReserved(identities, name, route) ==
  LET found == shortestIdentity(identities,
                                [prefix |-> name, identity |-> <<>>, isFound |-> FALSE])
  IN  IF found.isFound
      THEN [prefix |-> found.prefix, cost |-> route.cost,
            signer |-> signingByIdentity(found.identity)]
      ELSE nullopt

\* HostToGatewayReadvertisePolicy::handleNewRoute for a route of the entry
\* called name, with these identities in the key chain
handleNewRoute(identities, name, route) ==
  IF name # <<>> /\ name[1] \in ReservedComponents THEN nullopt
  ELSE LET found == shortestIdentity(identities,
                                     [prefix |-> name, identity |-> <<>>,
                                      isFound |-> FALSE])
       IN  IF found.isFound
           THEN [prefix |-> found.prefix, cost |-> route.cost,
                 signer |-> signingByIdentity(found.identity)]
           ELSE nullopt

-----------------------------------------------------------------------------
(* The inputs the environment draws from.  A specification fixes them in a     *)
(* record P: the names, (faceId, origin) keys and payloads of commands, whether *)
(* routes may expire, what observers and callbacks may submit re-entrantly,    *)
(* the routes of the FIB updater's inherited-route deltas, the (code, message) *)
(* replies of a failing FIB updater, and the bounds.                           *)

\* the route of an UNREGISTER command: only its key matters
keyRoute(f, o) == mkRoute(f, o, 0, {}, NoEvent)

\* a re-entrant submission: an update without callbacks
reaction(a, n, f, o) ==
  <<[update |-> [action |-> a, name |-> n, route |-> keyRoute(f, o)], cb |-> FALSE]>>

\* what an observer or a manager callback may submit from inside its callback
Reactions(P) ==
  IF hist.submitted >= P.maxUpdates THEN {<<>>} ELSE {<<>>} \cup P.reactions

\* the inherited-route deltas the FIB updater may answer with, for a table
\* holding the names T: none, or one update against an entry of the table
Deltas(P, T) ==
  {<<>>} \cup {<<[action |-> a, name |-> n, route |-> r]>> :
                 a \in {REGISTER, UNREGISTER, REMOVE_FACE}, n \in T, r \in P.inherited}

-----------------------------------------------------------------------------
(* The state machine *)

Init ==
  /\ m_rib = <<>>
  /\ m_faceEntries = <<>>
  /\ m_nItems = 0
  /\ m_updateBatches = <<>>
  /\ m_isUpdateInProgress = FALSE
  /\ fibCalls = <<>>
  /\ scheduler = {}
  /\ hist = [submitted |-> 0, dispatched |-> 0, answered |-> 0, committed |-> 0,
             refreshed |-> {}, down |-> <<>>]
  /\ last = [op |-> "init", seq |-> 0, update |-> <<>>, reply |-> <<>>,
             fired |-> <<>>, cbs |-> <<>>, erased |-> <<>>, submitted |-> 0,
             removedBy |-> NoEvent]

\* a handler returns: the Rib's members and the collaborators take the values it
\* left, within the bounds on the updates of one run and on the queue; last
\* records the handler, the update it submitted or answered and what it did
Done(P, s, op, seq, update, reply) ==
  /\ s.hist.submitted <= P.maxUpdates
  /\ Len(s.queue) <= P.maxQueue
  /\ s.react = <<>>
  /\ m_rib' = s.rib
  /\ m_faceEntries' = s.faceEntries
  /\ m_nItems' = s.nItems
  /\ m_updateBatches' = s.queue
  /\ m_isUpdateInProgress' = s.inProgress
  /\ fibCalls' = s.calls
  /\ scheduler' = s.sched
  /\ hist' = s.hist
  /\ last' = [op |-> op, seq |-> seq, update |-> update, reply |-> reply,
              fired |-> s.fired, cbs |-> s.cbs, erased |-> s.erased,
              submitted |-> s.hist.submitted - hist.submitted,
              removedBy |-> s.removedBy]

\* the event of the route at this prefix with this key, when it is still pending
pendingEvent(name, route) ==
  IF name \in DOMAIN m_rib /\ findRoute(m_rib[name].routes, route) # 0
  THEN LET old == m_rib[name].routes[findRoute(m_rib[name].routes, route)]
       IN  IF \E e \in scheduler : e.id = old.ev THEN old.ev ELSE NoEvent
  ELSE NoEvent

\* the faceIds of the commands
facesOf(P) == {k[1] : k \in P.keys}

\* a REGISTER command reaches the Rib; with expires, the manager has scheduled
\* the route's expiration and the route carries the event
Register(P) ==
  /\ hist.submitted < P.maxUpdates
  /\ \E n \in P.names, k \in P.keys, p \in P.payloads, expires \in P.expires :
       LET id == hist.submitted + 1
           route == mkRoute(k[1], k[2], p.cost, p.flags,
                            IF expires THEN id ELSE NoEvent)
           s0 == Here(<<>>)
           s1 == IF expires
                 THEN [s0 EXCEPT !.sched = @ \cup {[id |-> id, name |-> n,
                                                    route |-> route]}]
                 ELSE s0
           s2 == beginApplyUpdate(s1, [action |-> REGISTER, name |-> n, route |-> route],
                                  TRUE, NoEvent, pendingEvent(n, route))
       IN  Done(P, s2, "beginApplyUpdate", id,
                [action |-> REGISTER, name |-> n, route |-> route], <<>>)

\* an UNREGISTER command reaches the Rib
Unregister(P) ==
  /\ hist.submitted < P.maxUpdates
  /\ \E n \in P.names, k \in P.keys :
       LET update == [action |-> UNREGISTER, name |-> n, route |-> keyRoute(k[1], k[2])]
           s == beginApplyUpdate(Here(<<>>), update, TRUE, NoEvent, NoEvent)
       IN  Done(P, s, "beginApplyUpdate", hist.submitted + 1, update, <<>>)

\* a face goes down
RemoveFace(P) ==
  \E f \in facesOf(P) :
    Done(P, beginRemoveFace(Here(<<>>), f), "beginRemoveFace", f, <<>>, <<>>)

\* a face goes down while the queue is empty and no update is in flight; hist.down
\* keeps the faceId, the table as it was and the number of the last update the
\* handler enqueued.  Q: the bounds of this handler.
FaceDown(P, Q) ==
  /\ hist.submitted <= P.maxUpdates
  /\ m_updateBatches = <<>>
  /\ ~m_isUpdateInProgress
  /\ \E f \in facesOf(P) :
       LET s == beginRemoveFace(Here(<<>>), f)
       IN  Done(Q, [s EXCEPT !.hist.down = [faceId |-> f, rib |-> m_rib,
                                           at |-> s.hist.submitted]],
                "beginRemoveFace", f, <<>>, <<>>)

\* a face goes down, whatever the queue holds and whatever is in flight;
\* hist.down keeps the faceId, the table as it was and the number of the last
\* update the handler enqueued
FaceDownPending(P) ==
  \E f \in facesOf(P) :
    LET s == beginRemoveFace(Here(<<>>), f)
    IN  Done(P, [s EXCEPT !.hist.down = [faceId |-> f, rib |-> m_rib,
                                        at |-> s.hist.submitted]],
             "beginRemoveFace", f, <<>>, <<>>)

\* a REGISTER command reaches the Rib, and it is not for the face that went
\* down last
RegisterUp(P) ==
  /\ Register(P)
  /\ hist.down # <<>> => last'.update.route.faceId # hist.down.faceId

\* the face table reports the faces that are still up
RemoveFailedFaces(P) ==
  \E active \in SUBSET facesOf(P) :
    Done(P, beginRemoveFailedFaces(Here(<<>>), active), "beginRemoveFailedFaces", 0,
         [activeFaceIds |-> active], <<>>)

\* the FIB updater asks for the ancestor routes of an entry of the table
GetAncestorRoutes(P) ==
  \E n \in DOMAIN m_rib :
    Done(P, Here(<<>>), "getAncestorRoutes(entry)", 0, [name |-> n],
         getAncestorRoutes(m_rib, n))

\* the FIB updater asks for the ancestor routes of a name
GetAncestorRoutesOfName(P) ==
  \E n \in P.names :
    Done(P, Here(<<>>), "getAncestorRoutes(name)", 0, [name |-> n],
         getAncestorRoutesOfName(m_rib, n))

\* the policy is asked about a new route, as the test fixture's makeNewRoute
\* builds it: an entry of its own with the name and one route
HandleNewRoute(P) ==
  \E identities \in SUBSET P.identities, name \in P.names, p \in P.payloads :
    LET route == mkRoute(0, 0, p.cost, p.flags, NoEvent)
    IN  Done(P, Here(<<>>), "handleNewRoute", 0,
             [name |-> name, route |-> route, identities |-> identities],
             handleNewRoute(identities, name, route))

\* the FIB updater answers one of its unanswered calls
answer(s, i) ==
  [s EXCEPT !.calls = SubSeq(@, 1, i - 1) \o SubSeq(@, i + 1, Len(@)),
            !.hist.answered = @ + 1]

\* the FIB updater answers a call with success
FibSuccess(P) ==
  \E i \in 1..Len(fibCalls), react \in Reactions(P), cbReact \in Reactions(P) :
    LET item == fibCalls[i]
        s0 == answer(Here(react), i)
        s1 == [s0 EXCEPT !.hist.committed = item.seq,
                         !.hist.refreshed =
                            IF item.supersedes = NoEvent THEN @
                            ELSE @ \cup {item.supersedes}]
        s2 == applyBatch(s1, item)
    IN  \E inheritedRoutes \in Deltas(P, DOMAIN s2.rib) :
          Done(P, finishSuccess(s2, item, inheritedRoutes, cbReact),
               "onFibUpdateSuccess", item.seq, item.update, <<>>)

\* the FIB updater answers a call with failure
FibFailure(P) ==
  \E i \in 1..Len(fibCalls), reply \in P.errors, cbReact \in Reactions(P) :
    LET item == fibCalls[i]
        s == onFibUpdateFailure(answer(Here(<<>>), i), item, reply, cbReact)
    IN  Done(P, s, "onFibUpdateFailure", item.seq, item.update, reply)

\* the scheduler runs an expiration event
Expire(P) ==
  /\ hist.submitted < P.maxUpdates
  /\ \E e \in scheduler :
       LET s0 == Here(<<>>)
           s == onRouteExpiration([s0 EXCEPT !.sched = @ \ {e}], e)
       IN  Done(P, s, "onRouteExpiration", e.id,
                [action |-> UNREGISTER, name |-> e.name, route |-> e.route], <<>>)

-----------------------------------------------------------------------------
(* Spec: the update protocol.  Two names, one route key; observers and        *)
(* callbacks submit re-entrantly; the FIB updater answers either way.         *)

\* updates ever placed in the queue in one run
MaxUpdates == 4
\* updates waiting in the queue at once
MaxQueue == 3

QueueP ==
  [names |-> {<<1>>, <<1, 1>>}, keys |-> {<<1, 0>>},
   payloads |-> {[cost |-> 10, flags |-> {}]}, expires |-> {FALSE},
   reactions |-> {reaction(REGISTER, <<1>>, 1, 0), reaction(UNREGISTER, <<1>>, 1, 0)},
   inherited |-> {mkRoute(2, 0, 20, {CHILD_INHERIT}, NoEvent)},
   errors |-> {[code |-> 504, error |-> "timeout"], [code |-> 404, error |-> "not found"]},
   maxUpdates |-> MaxUpdates, maxQueue |-> MaxQueue]

Next ==
  \/ Register(QueueP)
  \/ Unregister(QueueP)
  \/ RemoveFace(QueueP)
  \/ RemoveFailedFaces(QueueP)
  \/ FibSuccess(QueueP)
  \/ FibFailure(QueueP)

Spec == Init /\ [][Next]_vars

-----------------------------------------------------------------------------
(* SpecTree: the prefix tree.  Four names, the root name among them, forming  *)
(* a chain of three and two siblings; one route key.                          *)

\* updates ever placed in the queue in one run of SpecTree
MaxUpdatesTree == 5
\* updates waiting in the queue at once in SpecTree
MaxQueueTree == 1

TreeP ==
  [names |-> {<<>>, <<1>>, <<1, 1>>, <<1, 2>>}, keys |-> {<<1, 0>>},
   payloads |-> {[cost |-> 10, flags |-> {}]}, expires |-> {FALSE},
   reactions |-> {}, inherited |-> {},
   errors |-> {[code |-> 504, error |-> "timeout"]},
   maxUpdates |-> MaxUpdatesTree, maxQueue |-> MaxQueueTree]

NextTree ==
  \/ Register(TreeP)
  \/ Unregister(TreeP)
  \/ FibSuccess(TreeP)
  \/ FibFailure(TreeP)

SpecTree == Init /\ [][NextTree]_vars

-----------------------------------------------------------------------------
(* SpecFace: routes and the face index.  Two names, two faceIds, one of them  *)
(* with two origins, so that an entry can hold two routes with one faceId;    *)
(* faces go down; every update is answered with success.                      *)

\* updates ever placed in the queue in one run of SpecFace
MaxUpdatesFace == 4
\* updates waiting in the queue at once in SpecFace
MaxQueueFace == 1

FaceP ==
  [names |-> {<<1>>, <<1, 1>>}, keys |-> {<<1, 0>>, <<1, 255>>, <<2, 0>>},
   payloads |-> {[cost |-> 10, flags |-> {}]}, expires |-> {FALSE},
   reactions |-> {}, inherited |-> {},
   errors |-> {},
   maxUpdates |-> MaxUpdatesFace, maxQueue |-> MaxQueueFace]

NextFace ==
  \/ Register(FaceP)
  \/ Unregister(FaceP)
  \/ RemoveFace(FaceP)
  \/ FibSuccess(FaceP)

SpecFace == Init /\ [][NextFace]_vars

-----------------------------------------------------------------------------
(* SpecEntry: entries and their routes.  Two names, one the parent of the     *)
(* other, two route keys; the FIB updater's deltas put inherited routes on    *)
(* entries; every update is answered with success.                            *)

\* updates ever placed in the queue in one run of SpecEntry
MaxUpdatesEntry == 4
\* updates waiting in the queue at once in SpecEntry
MaxQueueEntry == 1

EntryP ==
  [names |-> {<<1>>, <<1, 1>>}, keys |-> {<<1, 0>>, <<2, 0>>},
   payloads |-> {[cost |-> 10, flags |-> {}]}, expires |-> {FALSE},
   reactions |-> {}, inherited |-> {mkRoute(2, 0, 20, {CHILD_INHERIT}, NoEvent)},
   errors |-> {},
   maxUpdates |-> MaxUpdatesEntry, maxQueue |-> MaxQueueEntry]

NextEntry ==
  \/ Register(EntryP)
  \/ Unregister(EntryP)
  \/ FibSuccess(EntryP)

SpecEntry == Init /\ [][NextEntry]_vars

-----------------------------------------------------------------------------
(* SpecRefresh: re-registration.  One name, two route keys, two payloads; a   *)
(* REGISTER may carry an expiration event, which the scheduler runs at any    *)
(* later moment unless it was cancelled; every update is answered with        *)
(* success.                                                                   *)

\* updates ever placed in the queue in one run of SpecRefresh
MaxUpdatesRefresh == 4
\* updates waiting in the queue at once in SpecRefresh
MaxQueueRefresh == 1

RefreshP ==
  [names |-> {<<1>>}, keys |-> {<<1, 0>>, <<2, 0>>},
   payloads |-> {[cost |-> 10, flags |-> {}], [cost |-> 20, flags |-> {CHILD_INHERIT}]},
   expires |-> BOOLEAN,
   reactions |-> {}, inherited |-> {},
   errors |-> {},
   maxUpdates |-> MaxUpdatesRefresh, maxQueue |-> MaxQueueRefresh]

NextRefresh ==
  \/ Register(RefreshP)
  \/ Unregister(RefreshP)
  \/ Expire(RefreshP)
  \/ FibSuccess(RefreshP)

SpecRefresh == Init /\ [][NextRefresh]_vars

-----------------------------------------------------------------------------
(* SpecExp: expiration against the update queue.  One name, two route keys;   *)
(* a REGISTER may carry an expiration event, which the scheduler runs at any  *)
(* later moment unless it was cancelled; the FIB updater answers either way.  *)

\* updates ever placed in the queue in one run of SpecExp
MaxUpdatesExp == 4
\* updates waiting in the queue at once in SpecExp
MaxQueueExp == 1

ExpP ==
  [names |-> {<<1>>}, keys |-> {<<1, 0>>, <<2, 0>>},
   payloads |-> {[cost |-> 10, flags |-> {}]},
   expires |-> BOOLEAN,
   reactions |-> {}, inherited |-> {},
   errors |-> {[code |-> 504, error |-> "timeout"]},
   maxUpdates |-> MaxUpdatesExp, maxQueue |-> MaxQueueExp]

NextExp ==
  \/ Register(ExpP)
  \/ Unregister(ExpP)
  \/ Expire(ExpP)
  \/ FibSuccess(ExpP)
  \/ FibFailure(ExpP)

SpecExp == Init /\ [][NextExp]_vars

-----------------------------------------------------------------------------
(* SpecDown: a face goes down over an idle Rib.  Two sibling names, two        *)
(* faceIds, one of them with two origins; commands build the table, a face    *)
(* goes down once the Rib is idle, and every update is answered with success. *)

\* updates the commands place in the queue in one run of SpecDown
MaxUpdatesDown == 3
\* updates of commands waiting in the queue at once in SpecDown
MaxQueueDown == 1
\* updates one beginRemoveFace may place in the queue in SpecDown
MaxRemovalsDown == 8

DownP ==
  [names |-> {<<1>>, <<2>>}, keys |-> {<<1, 0>>, <<1, 255>>, <<2, 0>>},
   payloads |-> {[cost |-> 10, flags |-> {}]}, expires |-> {FALSE},
   reactions |-> {}, inherited |-> {},
   errors |-> {},
   maxUpdates |-> MaxUpdatesDown, maxQueue |-> MaxQueueDown]

\* the same inputs for the handlers that run once a face went down
DownQ ==
  [DownP EXCEPT !.maxUpdates = MaxUpdatesDown + MaxRemovalsDown,
                !.maxQueue = MaxRemovalsDown]

NextDown ==
  \/ Register(DownP)
  \/ Unregister(DownP)
  \/ FaceDown(DownP, DownQ)
  \/ FibSuccess(DownQ)

SpecDown == Init /\ [][NextDown]_vars

-----------------------------------------------------------------------------
(* SpecObs: observers that submit updates.  One name, one route key; each of  *)
(* the signals an update fires may reach a subscriber that calls              *)
(* beginApplyUpdate from inside the callback, so that one commit takes up to  *)
(* two re-entrant submissions.                                                *)

\* updates ever placed in the queue in one run of SpecObs
MaxUpdatesObs == 5
\* updates waiting in the queue at once in SpecObs
MaxQueueObs == 3

ObsP ==
  [names |-> {<<1>>}, keys |-> {<<1, 0>>},
   payloads |-> {[cost |-> 10, flags |-> {}]}, expires |-> {FALSE},
   reactions |-> {reaction(REGISTER, <<1>>, 1, 0),
                  reaction(UNREGISTER, <<1>>, 1, 0),
                  reaction(REGISTER, <<1>>, 1, 0) \o reaction(UNREGISTER, <<1>>, 1, 0),
                  reaction(UNREGISTER, <<1>>, 1, 0) \o reaction(REGISTER, <<1>>, 1, 0)},
   inherited |-> {},
   errors |-> {},
   maxUpdates |-> MaxUpdatesObs, maxQueue |-> MaxQueueObs]

NextObs ==
  \/ Register(ObsP)
  \/ Unregister(ObsP)
  \/ FibSuccess(ObsP)

SpecObs == Init /\ [][NextObs]_vars

-----------------------------------------------------------------------------
(* SpecAnc: ancestor routes.  A chain of three names; three route keys, two   *)
(* of them with one faceId; routes with CHILD_INHERIT, with CHILD_INHERIT and *)
(* CAPTURE, and with neither, told apart by their cost; the FIB updater asks  *)
(* for the ancestor routes of entries and of names.                           *)

\* updates ever placed in the queue in one run of SpecAnc
MaxUpdatesAnc == 3
\* updates waiting in the queue at once in SpecAnc
MaxQueueAnc == 1

AncP ==
  [names |-> {<<1>>, <<1, 1>>, <<1, 1, 1>>},
   keys |-> {<<1, 0>>, <<1, 255>>, <<2, 0>>},
   payloads |-> {[cost |-> 10, flags |-> {CHILD_INHERIT}],
                 [cost |-> 20, flags |-> {CHILD_INHERIT, CAPTURE}],
                 [cost |-> 30, flags |-> {}]},
   expires |-> {FALSE},
   reactions |-> {}, inherited |-> {},
   errors |-> {},
   maxUpdates |-> MaxUpdatesAnc, maxQueue |-> MaxQueueAnc]

NextAnc ==
  \/ Register(AncP)
  \/ FibSuccess(AncP)
  \/ GetAncestorRoutes(AncP)
  \/ GetAncestorRoutesOfName(AncP)

SpecAnc == Init /\ [][NextAnc]_vars

-----------------------------------------------------------------------------
(* SpecPolicy: the readvertise policy.  The key chain holds any of six        *)
(* identities, the three of the test PrefixToAdvertise among them; the route  *)
(* names are those of the tests, the name of an identity, the empty name and  *)
(* a name with a reserved component that is not its first.  No update is      *)
(* submitted.                                                                 *)

PolicyP ==
  [identities |-> {<<"A">>, <<"A", "B">>, <<"A", "nrd">>, <<"C", "nrd">>, <<"nrd">>,
                   <<"localhost">>},
   names |-> {<<"D", "app">>, <<"A", "B", "app">>, <<"A">>, <<"C", "nrd">>,
              <<"A", "localhost">>, <<>>,
              <<"localhost", "test">>, <<"localhop", "nfd">>},
   payloads |-> {[cost |-> 200, flags |-> {}], [cost |-> 10, flags |-> {CHILD_INHERIT}]},
   maxUpdates |-> 0, maxQueue |-> 0]

NextPolicy == HandleNewRoute(PolicyP)

SpecPolicy == Init /\ [][NextPolicy]_vars

-----------------------------------------------------------------------------
(* SpecFailed: the face table reports the faces that are up.  The names and   *)
(* route keys of SpecDown; commands build the table, the report arrives at    *)
(* any moment, also while updates are queued, and every update is answered    *)
(* with success.                                                              *)

\* updates the reports may place in the queue in one run of SpecFailed
MaxRemovalsFailed == 4

\* the inputs of SpecDown for the handlers that run once a report arrived
FailedQ ==
  [DownP EXCEPT !.maxUpdates = MaxUpdatesDown + MaxRemovalsFailed,
                !.maxQueue = MaxRemovalsFailed]

NextFailed ==
  \/ Register(DownP)
  \/ Unregister(DownP)
  \/ RemoveFailedFaces(FailedQ)
  \/ FibSuccess(FailedQ)

SpecFailed == Init /\ [][NextFailed]_vars

-----------------------------------------------------------------------------
(* SpecPending: a face goes down while updates are pending.  Two names, two   *)
(* faces; a face goes down in any state, with updates queued or in flight;    *)
(* once a face went down no REGISTER for it is submitted; every update is     *)
(* answered with success.                                                     *)

\* updates ever placed in the queue in one run of SpecPending
MaxUpdatesPending == 3
\* updates waiting in the queue at once in SpecPending
MaxQueuePending == 2

PendingP ==
  [names |-> {<<1>>, <<2>>}, keys |-> {<<1, 0>>, <<2, 0>>},
   payloads |-> {[cost |-> 10, flags |-> {}]}, expires |-> {FALSE},
   reactions |-> {}, inherited |-> {},
   errors |-> {},
   maxUpdates |-> MaxUpdatesPending, maxQueue |-> MaxQueuePending]

NextPending ==
  \/ RegisterUp(PendingP)
  \/ Unregister(PendingP)
  \/ FaceDownPending(PendingP)
  \/ FibSuccess(PendingP)

SpecPending == Init /\ [][NextPending]_vars

-----------------------------------------------------------------------------
(* SpecLive: the update queue under a FIB updater that answers.  One name,    *)
(* one route key; updates come from commands, from faces going down, from the *)
(* report of the faces that are up, from expiration events and from           *)
(* callbacks; the FIB updater answers either way, and answers every call: a   *)
(* call that stays unanswered is eventually answered.                         *)

\* updates ever placed in the queue in one run of SpecLive
MaxUpdatesLive == 3
\* updates waiting in the queue at once in SpecLive
MaxQueueLive == 2

LiveP ==
  [names |-> {<<1>>}, keys |-> {<<1, 0>>},
   payloads |-> {[cost |-> 10, flags |-> {}]}, expires |-> BOOLEAN,
   reactions |-> {reaction(UNREGISTER, <<1>>, 1, 0)},
   inherited |-> {},
   errors |-> {[code |-> 504, error |-> "timeout"]},
   maxUpdates |-> MaxUpdatesLive, maxQueue |-> MaxQueueLive]

\* the FIB updater invokes one of the two callbacks of a call
FibAnswer == FibFailure(LiveP) \/ FibSuccess(LiveP)

NextLive ==
  \/ Register(LiveP)
  \/ Unregister(LiveP)
  \/ RemoveFace(LiveP)
  \/ RemoveFailedFaces(LiveP)
  \/ Expire(LiveP)
  \/ FibSuccess(LiveP)
  \/ FibFailure(LiveP)

SpecLive == Init /\ [][NextLive]_vars /\ WF_vars(FibAnswer)

-----------------------------------------------------------------------------
(* C1: serial dispatch.  In every reachable state at most one                 *)
(* computeAndSendFibUpdates call is unanswered, and one is unanswered exactly *)
(* when the in-flight flag is true, whatever observers and callbacks submit   *)
(* re-entrantly.                                                              *)
C1_SerialDispatch ==
  /\ Len(fibCalls) <= 1
  /\ m_isUpdateInProgress <=> (Len(fibCalls) = 1)

\* a success handler whose onSuccess callback submitted an update, which was
\* dispatched at once, with another update left waiting
C1_Witness ==
  /\ last.op = "onFibUpdateSuccess"
  /\ last.cbs # <<>>
  /\ last.submitted >= 1
  /\ Len(fibCalls) = 1
  /\ m_isUpdateInProgress
  /\ m_updateBatches # <<>>

(* C2: FIFO.  Updates are dispatched in the order they were enqueued, none    *)
(* before every earlier one was answered, and the updates answered with       *)
(* success commit in that order.  Updates are numbered 1, 2, ... as enqueued. *)
C2_FifoState ==
  /\ \A i \in 1..Len(m_updateBatches) : m_updateBatches[i].seq = hist.dispatched + i
  /\ \A i \in 1..Len(fibCalls) : fibCalls[i].seq = hist.dispatched
  /\ hist.answered = hist.dispatched - Len(fibCalls)
  /\ hist.committed <= hist.dispatched
  /\ hist.dispatched + Len(m_updateBatches) = hist.submitted

C2_FifoStep ==
  /\ hist'.dispatched >= hist.dispatched
  /\ hist'.committed >= hist.committed
  /\ hist'.committed # hist.committed =>
       \E i \in 1..Len(fibCalls) : fibCalls[i].seq = hist'.committed

C2_Fifo == []C2_FifoState /\ [][C2_FifoStep]_vars

\* three updates were committed while a fourth was submitted behind them
C2_Witness ==
  /\ hist.committed >= 3
  /\ hist.submitted >= 4
  /\ last.op = "onFibUpdateSuccess"

(* C3: a FIB failure preserves state.  The step that answers an update with   *)
(* failure leaves the table, the face index and nItems unchanged, fires no    *)
(* observer, invokes the update's onFailure once with the FIB updater's code  *)
(* and message and onSuccess never, dispatches the next queued update if any  *)
(* and else leaves the in-flight flag clear, and enqueues no retry.           *)
C3_FailureStep ==
  /\ hist'.answered = hist.answered + 1
  /\ last'.op = "onFibUpdateFailure"

C3_Preserved ==
  \E i \in 1..Len(fibCalls) :
    LET item == fibCalls[i]
        \* what is outstanding or queued afterwards, and was before
        after == fibCalls' \o m_updateBatches'
        kept == SelectSeq(after, LAMBDA x : x.seq <= hist.submitted)
        new == SelectSeq(after, LAMBDA x : x.seq > hist.submitted)
    IN  /\ item.seq = last'.seq
        /\ m_rib' = m_rib
        /\ m_faceEntries' = m_faceEntries
        /\ m_nItems' = m_nItems
        /\ last'.fired = <<>>
        /\ last'.cbs = IF item.cb
                       THEN <<[cb |-> "onFailure", seq |-> item.seq,
                               reply |-> last'.reply]>>
                       ELSE <<>>
        /\ kept = m_updateBatches
        /\ new # <<>> => item.cb /\ Len(new) = 1 /\ ~new[1].cb
        /\ IF after = <<>>
           THEN ~m_isUpdateInProgress' /\ fibCalls' = <<>>
           ELSE m_isUpdateInProgress' /\ fibCalls' = <<Head(after)>>

C3_FailurePreservesState == [][C3_FailureStep => C3_Preserved]_vars

\* a failure was answered over a table that holds an entry, its onFailure was
\* called, and the next queued update went out
C3_Witness ==
  /\ last.op = "onFibUpdateFailure"
  /\ last.cbs # <<>>
  /\ DOMAIN m_rib # {}
  /\ Len(fibCalls) = 1
  /\ m_updateBatches # <<>>

-----------------------------------------------------------------------------
\* the observer events of the last handler of one kind
firedOf(kind) ==
  {last.fired[i].name : i \in {j \in 1..Len(last.fired) : last.fired[j].kind = kind}}

\* the name in T that is the longest strict prefix of n, nullptr when there is none
longestStrictPrefix(T, n) ==
  LET SP == {p \in T : isStrictPrefixOf(p, n)}
  IN  IF SP = {} THEN nullptr
      ELSE CHOOSE p \in SP : \A q \in SP : Len(q) <= Len(p)

(* C4: tree consistency.  After every update, each entry's parent is the      *)
(* entry of the table whose name is the longest strict prefix of the entry's  *)
(* name, and an entry has no parent exactly when the table holds no strict    *)
(* prefix of its name.                                                        *)
C4_TreeConsistency ==
  \A n \in DOMAIN m_rib :
    /\ m_rib[n].name = n
    /\ m_rib[n].parent = longestStrictPrefix(DOMAIN m_rib, n)
    /\ m_rib[n].parent = nullptr <=>
         ~\E p \in DOMAIN m_rib : isStrictPrefixOf(p, n)

\* an entry was erased from between its parent and its child
C4_Witness ==
  /\ last.op = "onFibUpdateSuccess"
  /\ \E n \in firedOf("afterEraseEntry") :
       \E c \in DOMAIN m_rib :
         /\ isStrictPrefixOf(n, c)
         /\ m_rib[c].parent # nullptr
         /\ isStrictPrefixOf(m_rib[c].parent, n)

(* C5: children set.  After every update, each entry lists as children        *)
(* exactly the entries of the table whose parent it is, each once.            *)
C5_ChildrenSet ==
  \A n \in DOMAIN m_rib :
    LET ch == m_rib[n].children
    IN  /\ \A i, j \in 1..Len(ch) : ch[i] = ch[j] => i = j
        /\ {ch[i] : i \in 1..Len(ch)} = {c \in DOMAIN m_rib : m_rib[c].parent = n}

\* an entry was inserted between its parent and two entries that were the
\* parent's children
C5_Witness ==
  /\ last.op = "onFibUpdateSuccess"
  /\ \E n \in firedOf("afterInsertEntry") :
       /\ m_rib[n].parent # nullptr
       /\ Len(m_rib[n].children) = 2

-----------------------------------------------------------------------------
(* C6: face index.  After every update, every (faceId, entry) item of the     *)
(* face index names an entry that is in the table and holds an own route with *)
(* that faceId, and every entry holding a route with faceId f has an item     *)
(* (f, entry).                                                                *)
C6_IndexSound ==
  \A i \in 1..Len(m_faceEntries) :
    LET it == m_faceEntries[i]
    IN  /\ it.live
        /\ it.name \in DOMAIN m_rib
        /\ hasFaceId(m_rib[it.name].routes, it.faceId)

C6_IndexComplete ==
  \A n \in DOMAIN m_rib :
    \A j \in 1..Len(m_rib[n].routes) :
      \E i \in 1..Len(m_faceEntries) :
        m_faceEntries[i] = [faceId |-> m_rib[n].routes[j].faceId, name |-> n,
                            live |-> TRUE]

C6_FaceIndex == C6_IndexSound /\ C6_IndexComplete

(* C7: no empty entries.  After every update every entry of the table holds   *)
(* an own route: the erase that removes an entry's last own route removes the *)
(* entry with it, inherited routes or not.                                    *)
C7_NoEmptyEntries ==
  \A n \in DOMAIN m_rib : m_rib[n].routes # <<>>

\* the last update erased an entry that held an inherited route, while the
\* table keeps an entry from which a route was removed earlier
C7_Witness ==
  /\ last.op = "onFibUpdateSuccess"
  /\ \E i \in 1..Len(last.erased) :
       /\ last.erased[i].inheritedRoutes # {}
       /\ last.erased[i].routes = <<>>
       /\ last.erased[i].name \notin DOMAIN m_rib
  /\ DOMAIN m_rib # {}

RECURSIVE sumRoutes(_, _)
sumRoutes(rib, S) ==
  IF S = {} THEN 0
  ELSE LET n == CHOOSE x \in S : TRUE
       IN  Len(rib[n].routes) + sumRoutes(rib, S \ {n})

(* C8: route count.  After every update nItems is the number of own routes of *)
(* the entries of the table, so 0 exactly when the table is empty, and never  *)
(* below 0.                                                                   *)
C8_RouteCount ==
  /\ m_nItems = sumRoutes(m_rib, DOMAIN m_rib)
  /\ m_nItems >= 0
  /\ m_nItems = 0 <=> DOMAIN m_rib = {}

\* an UNREGISTER of a route the table does not hold was committed over a table
\* with three routes in two entries, one entry with two routes
C8_Witness ==
  /\ last.op = "onFibUpdateSuccess"
  /\ last.update.action = UNREGISTER
  /\ last.fired = <<>>
  /\ m_nItems = 3
  /\ \E n \in DOMAIN m_rib : Len(m_rib[n].routes) = 2

-----------------------------------------------------------------------------
(* C9: refresh.  The step that commits a REGISTER whose (prefix, faceId,      *)
(* origin) is a route of the table leaves nItems, the number and order of the *)
(* routes of every entry, the face index and the tree links unchanged, fires  *)
(* neither afterInsertEntry nor afterAddRoute, cancels the expiration event   *)
(* the route carried and gives the route the cost, flags and expiration of    *)
(* the update.                                                                *)
C9_RefreshStep ==
  /\ hist'.answered = hist.answered + 1
  /\ last'.op = "onFibUpdateSuccess"
  /\ last'.update.action = REGISTER
  /\ last'.update.name \in DOMAIN m_rib
  /\ findRoute(m_rib[last'.update.name].routes, last'.update.route) # 0

C9_Refreshed ==
  LET u == last'.update
      pos == findRoute(m_rib[u.name].routes, u.route)
      old == m_rib[u.name].routes[pos]
  IN  /\ m_nItems' = m_nItems
      /\ m_faceEntries' = m_faceEntries
      /\ DOMAIN m_rib' = DOMAIN m_rib
      /\ \A n \in DOMAIN m_rib :
           /\ m_rib'[n].parent = m_rib[n].parent
           /\ m_rib'[n].children = m_rib[n].children
           /\ Len(m_rib'[n].routes) = Len(m_rib[n].routes)
           /\ \A i \in 1..Len(m_rib[n].routes) :
                IF n = u.name /\ i = pos
                THEN m_rib'[n].routes[i] = u.route
                ELSE m_rib'[n].routes[i] = m_rib[n].routes[i]
      /\ \A i \in 1..Len(last'.fired) :
           last'.fired[i].kind \notin {"afterInsertEntry", "afterAddRoute"}
      /\ old.ev # NoEvent => ~\E e \in scheduler' : e.id = old.ev

C9_Refresh == [][C9_RefreshStep => C9_Refreshed]_vars

\* three updates were submitted; the last one committed refreshed the first of
\* the entry's two routes while that route's expiration event was pending, and
\* no event is pending any more
C9_Witness ==
  /\ last.op = "onFibUpdateSuccess"
  /\ last.update.action = REGISTER
  /\ last.fired = <<>>
  /\ hist.submitted = 3
  /\ hist.refreshed # {}
  /\ scheduler = {}
  /\ Len(m_rib[last.update.name].routes) = 2
  /\ m_rib[last.update.name].routes[1] = last.update.route
  /\ last.update.route.cost = 20

(* C10: refresh cancels expiration.  Once a REGISTER that re-registers a      *)
(* route, submitted while the route's expiration event was still pending, has *)
(* been answered with success, that event never removes the route.            *)
C10_RefreshCancelsExpiration ==
  ~(last.removedBy # NoEvent /\ last.removedBy \in hist.refreshed)

-----------------------------------------------------------------------------
\* the own routes of a table, as (name, route) pairs
routesOf(rib) ==
  UNION {{<<n, rib[n].routes[i]>> : i \in 1..Len(rib[n].routes)} : n \in DOMAIN rib}

(* C11: face-down mass removal.  When beginRemoveFace(f) ran over an idle Rib *)
(* (queue empty, nothing in flight), no other update was submitted since and  *)
(* every update was answered with success, then once the queue is empty again *)
(* and nothing is in flight no entry holds a route with faceId f, every route *)
(* with another faceId that was in the table is still there, and the entries  *)
(* of the table are exactly those that still hold a route.                    *)
C11_FaceDown ==
  (/\ hist.down # <<>>
   /\ hist.submitted = hist.down.at
   /\ m_updateBatches = <<>>
   /\ ~m_isUpdateInProgress
   /\ fibCalls = <<>>)
  => LET f == hist.down.faceId
         before == routesOf(hist.down.rib)
         kept == {x \in before : x[2].faceId # f}
     IN  /\ \A n \in DOMAIN m_rib : ~hasFaceId(m_rib[n].routes, f)
         /\ kept \subseteq routesOf(m_rib)
         /\ routesOf(m_rib) \subseteq kept
         /\ DOMAIN m_rib = {x[1] : x \in kept}
         /\ \A n \in DOMAIN m_rib : m_rib[n].routes # <<>>

\* face 1 went down over a table with a route of face 1 in each of two entries
\* and a route of face 2 in one of them; the two removals have drained, and the
\* route of face 2 and its entry are all that is left
C11_Witness ==
  /\ hist.down # <<>>
  /\ hist.down.faceId = 1
  /\ hist.submitted = hist.down.at
  /\ m_updateBatches = <<>>
  /\ ~m_isUpdateInProgress
  /\ Cardinality(routesOf(hist.down.rib)) = 3
  /\ \A n \in DOMAIN hist.down.rib : hasFaceId(hist.down.rib[n].routes, 1)
  /\ Cardinality(DOMAIN hist.down.rib) = 2
  /\ Cardinality(routesOf(m_rib)) = 1
  /\ Cardinality(DOMAIN m_rib) = 1
  /\ last.op = "onFibUpdateSuccess"

-----------------------------------------------------------------------------
(* C12: idempotent UNREGISTER.  The step that answers with success an         *)
(* UNREGISTER or REMOVE_FACE whose prefix is not in the table, or whose       *)
(* (faceId, origin) the entry does not hold, leaves the entries with their    *)
(* routes, nItems, the face index and the parent and children links           *)
(* unchanged, fires no observer, and invokes the onSuccess the update was     *)
(* given, and no onFailure.                                                   *)
C12_MissStep ==
  /\ hist'.answered = hist.answered + 1
  /\ last'.op = "onFibUpdateSuccess"
  /\ last'.update.action \in {UNREGISTER, REMOVE_FACE}
  /\ \/ last'.update.name \notin DOMAIN m_rib
     \/ findRoute(m_rib[last'.update.name].routes, last'.update.route) = 0

C12_Absorbed ==
  \E i \in 1..Len(fibCalls) :
    LET item == fibCalls[i]
    IN  /\ item.seq = last'.seq
        /\ DOMAIN m_rib' = DOMAIN m_rib
        /\ \A n \in DOMAIN m_rib :
             /\ m_rib'[n].routes = m_rib[n].routes
             /\ m_rib'[n].parent = m_rib[n].parent
             /\ m_rib'[n].children = m_rib[n].children
        /\ m_nItems' = m_nItems
        /\ m_faceEntries' = m_faceEntries
        /\ last'.fired = <<>>
        /\ last'.erased = <<>>
        /\ last'.cbs = IF item.cb
                       THEN <<[cb |-> "onSuccess", seq |-> item.seq, reply |-> <<>>]>>
                       ELSE <<>>

C12_IdempotentUnregister == [][C12_MissStep => C12_Absorbed]_vars

\* an UNREGISTER of a key the entry does not hold was answered with success:
\* its onSuccess ran, nothing fired, and the entry keeps its two routes
C12_Witness ==
  /\ last.op = "onFibUpdateSuccess"
  /\ last.update.action = UNREGISTER
  /\ last.fired = <<>>
  /\ Len(last.cbs) = 1
  /\ last.cbs[1].cb = "onSuccess"
  /\ last.update.name \in DOMAIN m_rib
  /\ Len(m_rib[last.update.name].routes) = 2
  /\ m_nItems = 2

-----------------------------------------------------------------------------
\* the positions of the events of the last handler whose subscriber submitted
\* an update
reentered == {i \in 1..Len(last.fired) : last.fired[i].sub # <<>>}

(* C13: observer re-entrancy.  An update a subscriber submits from inside an  *)
(* afterInsertEntry, afterAddRoute, beforeRemoveRoute or afterEraseEntry      *)
(* callback is appended to the queue and no more: when the call returns, the  *)
(* update is the last of the queue, nothing went to the FIB updater, nothing  *)
(* was applied to the table and the in-flight flag is still set; and when the *)
(* handler that commits the update has finished, the submitted update is      *)
(* waiting in the queue or is the one in flight, and is not committed.        *)
C13_Reentrancy ==
  \A i \in reentered :
    LET sub == last.fired[i].sub
    IN  /\ last.op = "onFibUpdateSuccess"
        /\ sub.queuedLast
        /\ ~sub.dispatched
        /\ ~sub.applied
        /\ sub.inProgress
        /\ hist.committed = last.seq
        /\ last.seq < sub.seq
        /\ \/ \E j \in 1..Len(m_updateBatches) : m_updateBatches[j].seq = sub.seq
           \/ /\ fibCalls # <<>>
              /\ fibCalls[1].seq = sub.seq
              /\ hist.dispatched = sub.seq

\* one commit fired two signals, the subscribers of both submitted an update,
\* and the first of the two went to the FIB updater when the commit finished
C13_Witness ==
  /\ last.op = "onFibUpdateSuccess"
  /\ Cardinality(reentered) = 2
  /\ {last.fired[i].kind : i \in reentered} = {"beforeRemoveRoute", "afterEraseEntry"}
  /\ fibCalls # <<>>
  /\ \E i \in reentered : fibCalls[1].seq = last.fired[i].sub.seq
  /\ Len(m_updateBatches) = 1

-----------------------------------------------------------------------------
\* the afterAddRoute events of the last handler
addRouteEvents == {i \in 1..Len(last.fired) : last.fired[i].kind = "afterAddRoute"}

\* when the event fired, the entry was in the table with the route in its list
C14_RouteInList(ev) ==
  /\ ev.name \in DOMAIN ev.seen.rib
  /\ \E j \in 1..Len(ev.seen.rib[ev.name].routes) :
       ev.seen.rib[ev.name].routes[j] = ev.route

\* when the event fired, nItems counted the route
C14_Counted(ev) ==
  ev.seen.nItems = sumRoutes(ev.seen.rib, DOMAIN ev.seen.rib)

\* when the event fired, the face index held (route.faceId, entry)
C14_Indexed(ev) ==
  \E j \in 1..Len(ev.seen.faceEntries) :
    ev.seen.faceEntries[j] = [faceId |-> ev.route.faceId, name |-> ev.name,
                              live |-> TRUE]

(* C14: afterAddRoute fires after the mutation.  Whenever afterAddRoute fires *)
(* for a route insert has added, to a new entry or to an existing one, the    *)
(* route is in the entry's route list, nItems counts it and the face index    *)
(* holds (route.faceId, entry).                                               *)
C14_AfterAddRoute ==
  \A i \in addRouteEvents :
    /\ C14_RouteInList(last.fired[i])
    /\ C14_Counted(last.fired[i])
    /\ C14_Indexed(last.fired[i])

\* the part of C14 that holds: the route list and nItems are up to date whenever
\* afterAddRoute fires, and the face index too when the entry is new
C14_ListAndCount ==
  \A i \in addRouteEvents :
    /\ C14_RouteInList(last.fired[i])
    /\ C14_Counted(last.fired[i])
    /\ (i > 1 /\ last.fired[i - 1].kind = "afterInsertEntry")
         => C14_Indexed(last.fired[i])

-----------------------------------------------------------------------------
\* the last handler was a getAncestorRoutes query
isAncestorQuery ==
  last.op \in {"getAncestorRoutes(entry)", "getAncestorRoutes(name)"}

\* the strict prefixes of the queried name that are entries of the table: the
\* parent chain of the entry or name
chainOf(n) == {a \in DOMAIN m_rib : isStrictPrefixOf(a, n)}

\* the ancestors the walk from n visits: those of the chain with no capturing
\* entry of the chain strictly nearer to n
walkOf(n) ==
  {a \in chainOf(n) :
     \A b \in chainOf(n) : Len(b) > Len(a) => ~hasCapture(m_rib[b].routes)}

\* the CHILD_INHERIT routes of an entry
childInherit(a) ==
  {m_rib[a].routes[i] : i \in {j \in 1..Len(m_rib[a].routes) :
                                 CHILD_INHERIT \in m_rib[a].routes[j].flags}}

\* the CHILD_INHERIT routes met on the walk from n, each key's nearest copy
nearestOf(n) ==
  UNION {{r \in childInherit(a) :
            \A b \in walkOf(n) : Len(b) > Len(a) =>
              \A q \in childInherit(b) : ~sameRoute(q, r)} : a \in walkOf(n)}

(* C15: de-duplication.  The result of getAncestorRoutes is ordered by faceId *)
(* and holds one route for each (faceId, origin) key met on the walk, the     *)
(* copy of the nearest ancestor; two CHILD_INHERIT routes met on the walk     *)
(* with one faceId and two origins are both in it.                            *)
C15_Dedup ==
  isAncestorQuery =>
    LET res == last.reply
    IN  /\ \A i, j \in 1..Len(res) : i < j => res[i].faceId <= res[j].faceId
        /\ \A i, j \in 1..Len(res) : sameRoute(res[i], res[j]) => i = j
        /\ {res[i] : i \in 1..Len(res)} = nearestOf(last.update.name)

\* the part of C15 that holds: the result is strictly ordered by faceId, and
\* holds for each faceId met on the walk the first copy met
C15_ByFaceId ==
  isAncestorQuery =>
    LET res == last.reply
        n == last.update.name
    IN  /\ \A i, j \in 1..Len(res) : i < j => res[i].faceId < res[j].faceId
        /\ {res[i].faceId : i \in 1..Len(res)} = {r.faceId : r \in nearestOf(n)}
        /\ \A i \in 1..Len(res) : res[i] \in nearestOf(n)

-----------------------------------------------------------------------------
\* the CHILD_INHERIT routes of the ancestors the walk from n visits
eligibleOf(n) == UNION {childInherit(a) : a \in walkOf(n)}

(* C16: the walk.  A route is in getAncestorRoutes(X) only if it has          *)
(* CHILD_INHERIT and belongs to an ancestor on the parent chain of X with no  *)
(* capturing ancestor strictly nearer to X; the first capturing ancestor is   *)
(* itself visited, so each of its CHILD_INHERIT routes is in the result       *)
(* unless the RouteSet already held a route it is equivalent to; routes of    *)
(* ancestors above it, and routes of X, are not in the result.                *)
C16_Walk ==
  isAncestorQuery =>
    LET res == last.reply
        n == last.update.name
    IN  /\ \A i \in 1..Len(res) :
             /\ CHILD_INHERIT \in res[i].flags
             /\ res[i] \in eligibleOf(n)
        /\ \A r \in eligibleOf(n) :
             \E i \in 1..Len(res) : res[i].faceId = r.faceId
        /\ \A a \in (chainOf(n) \ walkOf(n)) \cup ({n} \cap DOMAIN m_rib) :
             \A j \in 1..Len(m_rib[a].routes) :
               m_rib[a].routes[j] \notin eligibleOf(n) =>
                 \A i \in 1..Len(res) : res[i] # m_rib[a].routes[j]

\* the ancestor routes of the entry at the bottom of a chain of three were
\* asked for: its parent captures and gave its CHILD_INHERIT route, and the
\* CHILD_INHERIT route of the entry above, of another faceId, was left out
C16_Witness ==
  /\ last.op = "getAncestorRoutes(entry)"
  /\ last.update.name = <<1, 1, 1>>
  /\ DOMAIN m_rib = {<<1>>, <<1, 1>>, <<1, 1, 1>>}
  /\ hasCapture(m_rib[<<1, 1>>].routes)
  /\ Len(last.reply) = 1
  /\ last.reply[1] = m_rib[<<1, 1>>].routes[1]
  /\ CHILD_INHERIT \in m_rib[<<1>>].routes[1].flags
  /\ m_rib[<<1>>].routes[1].faceId # last.reply[1].faceId
  /\ CHILD_INHERIT \in m_rib[<<1, 1, 1>>].routes[1].flags

-----------------------------------------------------------------------------
\* the identities of the last handleNewRoute that qualify for its route: those
\* whose name, a trailing nrd dropped, is a prefix of the route's name
qualifying ==
  {id \in last.update.identities : isPrefixOf(dropIgnored(id), last.update.name)}

(* C17: reserved names.  For a route whose name begins with the component     *)
(* localhost or localhop, handleNewRoute returns no action, whatever          *)
(* identities are registered.                                                 *)
C17_Reserved ==
  (/\ last.op = "handleNewRoute"
   /\ last.update.name # <<>>
   /\ last.update.name[1] \in {"localhost", "localhop"})
  => last.reply = nullopt

\* the policy was asked about /localhost/test with the identity /localhost and
\* the identity /nrd registered, both of which are prefixes of the name once
\* a trailing nrd is dropped
C17_Witness ==
  /\ last.op = "handleNewRoute"
  /\ last.update.name = <<"localhost", "test">>
  /\ {<<"localhost">>, <<"nrd">>} \subseteq last.update.identities
  /\ last.reply = nullopt

(* C18: classification.  For a route with a name N that is not reserved,      *)
(* handleNewRoute returns an action exactly when some registered identity,    *)
(* its trailing nrd component dropped, is a prefix of N; the action's prefix  *)
(* is the shortest such name, its cost is the route's cost and its signer is  *)
(* signingByIdentity of a registered identity, with nrd if it has one, that   *)
(* gives this prefix; and no action is returned when no identity qualifies.   *)
C18_Classification ==
  (/\ last.op = "handleNewRoute"
   /\ ~(last.update.name # <<>> /\ last.update.name[1] \in {"localhost", "localhop"}))
  => /\ (last.reply # nullopt) <=> (qualifying # {})
     /\ last.reply # nullopt =>
          /\ \E id \in qualifying :
               /\ last.reply.prefix = dropIgnored(id)
               /\ last.reply.signer = signingByIdentity(id)
          /\ \A id \in qualifying : Len(last.reply.prefix) <= Len(dropIgnored(id))
          /\ last.reply.cost = last.update.route.cost

\* the policy was asked about /C/nrd with cost 200 and the identities /A, /A/B
\* and /C/nrd registered, and answered with the prefix /C signed by /C/nrd
C18_Witness ==
  /\ last.op = "handleNewRoute"
  /\ last.update.name = <<"C", "nrd">>
  /\ last.update.identities = {<<"A">>, <<"A", "B">>, <<"C", "nrd">>}
  /\ last.reply = [prefix |-> <<"C">>, cost |-> 200,
                   signer |-> signingByIdentity(<<"C", "nrd">>)]

-----------------------------------------------------------------------------
\* the updates a step placed in the queue, among them the one it dispatched
enqueuedByStep ==
  SelectSeq(fibCalls' \o m_updateBatches', LAMBDA x : x.seq > hist.submitted)

\* the REMOVE_FACE update for a route of the table
removeFaceOf(n, r) == [action |-> REMOVE_FACE, name |-> n, route |-> r]

\* the routes of the table with this faceId, as (name, route) pairs
routesOfFace(f) == {x \in routesOf(m_rib) : x[2].faceId = f}

(* C19: beginRemoveFace.  The step of beginRemoveFace(faceId) appends exactly *)
(* one REMOVE_FACE update for each route of the table with that faceId, named *)
(* by the route's prefix and key, and none for any other route, also when an  *)
(* entry holds several routes with that faceId.                               *)
C19_Step ==
  last'.op = "beginRemoveFace" =>
    LET new == enqueuedByStep
        f == last'.seq
    IN  /\ \A x \in routesOfFace(f) :
             Cardinality({i \in 1..Len(new) :
                            new[i].update = removeFaceOf(x[1], x[2])}) = 1
        /\ \A i \in 1..Len(new) :
             \E x \in routesOfFace(f) : new[i].update = removeFaceOf(x[1], x[2])

C19_OnePerRoute == [][C19_Step]_vars

\* the part of C19 that holds: every route with the faceId gets a REMOVE_FACE
\* update, and no other route gets one
C19_CoversStep ==
  last'.op = "beginRemoveFace" =>
    LET new == enqueuedByStep
        f == last'.seq
    IN  /\ \A x \in routesOfFace(f) :
             \E i \in 1..Len(new) : new[i].update = removeFaceOf(x[1], x[2])
        /\ \A i \in 1..Len(new) :
             \E x \in routesOfFace(f) : new[i].update = removeFaceOf(x[1], x[2])

C19_Covers == [][C19_CoversStep]_vars

-----------------------------------------------------------------------------
(* C20: beginRemoveFailedFaces.  The step of beginRemoveFailedFaces(active)   *)
(* appends a REMOVE_FACE update for every route of the table whose faceId is  *)
(* not in active, and appends nothing else: no update for a route whose       *)
(* faceId is in active; when active holds every faceId of the table, the      *)
(* queue is as it was and nothing new is dispatched.                          *)
C20_Step ==
  last'.op = "beginRemoveFailedFaces" =>
    LET new == enqueuedByStep
        active == last'.update.activeFaceIds
        failed == {x \in routesOf(m_rib) : x[2].faceId \notin active}
    IN  /\ \A x \in failed :
             \E i \in 1..Len(new) : new[i].update = removeFaceOf(x[1], x[2])
        /\ \A i \in 1..Len(new) :
             \E x \in failed : new[i].update = removeFaceOf(x[1], x[2])
        /\ failed = {} =>
             /\ m_updateBatches' = m_updateBatches
             /\ fibCalls' = fibCalls
             /\ hist' = hist
             /\ m_isUpdateInProgress' = m_isUpdateInProgress

C20_RemoveFailedFaces == [][C20_Step]_vars

\* face 2 was reported up over a table with a route of face 2 and two routes of
\* face 1 in two entries: two REMOVE_FACE updates were appended, one went to
\* the FIB updater
C20_Witness ==
  /\ last.op = "beginRemoveFailedFaces"
  /\ last.update.activeFaceIds = {2}
  /\ last.submitted = 2
  /\ Cardinality(routesOf(m_rib)) = 3
  /\ Cardinality(DOMAIN m_rib) = 2
  /\ Len(fibCalls) = 1
  /\ fibCalls[1].update.action = REMOVE_FACE
  /\ Len(m_updateBatches) = 1

-----------------------------------------------------------------------------
\* the beforeRemoveRoute events of the last handler
removeRouteEvents ==
  {i \in 1..Len(last.fired) : last.fired[i].kind = "beforeRemoveRoute"}

(* C21: beforeRemoveRoute.  When beforeRemoveRoute fires, the route is in the *)
(* route list of its entry, the entry is in the table, and nItems and the     *)
(* face index count the route; when the handler has finished, the route is    *)
(* gone from the table and nItems is one less, and an afterEraseEntry for the *)
(* entry, if there is one, fired after it.                                    *)
C21_BeforeRemoveRoute ==
  \A i \in removeRouteEvents :
    LET ev == last.fired[i]
    IN  /\ C14_RouteInList(ev)
        /\ C14_Counted(ev)
        /\ C14_Indexed(ev)
        /\ \/ ev.name \notin DOMAIN m_rib
           \/ findRoute(m_rib[ev.name].routes, ev.route) = 0
        /\ m_nItems = ev.seen.nItems - 1
        /\ \A j \in 1..Len(last.fired) :
             (last.fired[j].kind = "afterEraseEntry" /\ last.fired[j].name = ev.name)
               => j > i

\* a REMOVE_FACE was committed that removed the last route of an entry:
\* beforeRemoveRoute, then afterEraseEntry, over a table that keeps another
\* entry
C21_Witness ==
  /\ last.op = "onFibUpdateSuccess"
  /\ last.update.action = REMOVE_FACE
  /\ Len(last.fired) = 2
  /\ last.fired[1].kind = "beforeRemoveRoute"
  /\ last.fired[2].kind = "afterEraseEntry"
  /\ last.fired[1].seen.nItems = 2
  /\ m_nItems = 1

-----------------------------------------------------------------------------
\* the elements of a sequence
Range(seq) == {seq[i] : i \in 1..Len(seq)}

\* the afterEraseEntry events of the handler a step ran
eraseEntryEvents ==
  {i \in 1..Len(last'.fired) : last'.fired[i].kind = "afterEraseEntry"}

(* C22: the erased entry is detached.  When afterEraseEntry(name) fires, the  *)
(* entry is not in the table, has no parent and no children, is a child of no *)
(* entry, and each entry that was its child has as parent the entry that was  *)
(* its parent, or none when it had none.                                      *)
C22_Step ==
  \A i \in eraseEntryEvents :
    LET ev == last'.fired[i]
        table == ev.seen.rib
        formerParent == m_rib[ev.name].parent
        formerChildren == Range(m_rib[ev.name].children)
    IN  /\ ev.name \in DOMAIN m_rib
        /\ ev.name \notin DOMAIN table
        /\ \E j \in 1..Len(last'.erased) :
             /\ last'.erased[j].name = ev.name
             /\ last'.erased[j].parent = nullptr
             /\ last'.erased[j].children = <<>>
        /\ \A n \in DOMAIN table :
             /\ ev.name \notin Range(table[n].children)
             /\ table[n].parent # ev.name
        /\ \A c \in formerChildren :
             /\ c \in DOMAIN table
             /\ table[c].parent = formerParent
             /\ formerParent # nullptr => c \in Range(table[formerParent].children)

C22_ErasedDetached == [][C22_Step]_vars

\* an entry with a parent and two children was erased: the entry left the
\* table without links, and its parent has the two children
C22_Witness ==
  /\ last.op = "onFibUpdateSuccess"
  /\ \E i \in 1..Len(last.fired) :
       /\ last.fired[i].kind = "afterEraseEntry"
       /\ last.fired[i].name = <<1>>
       /\ <<>> \in DOMAIN last.fired[i].seen.rib
       /\ Range(last.fired[i].seen.rib[<<>>].children) = {<<1, 1>>, <<1, 2>>}
  /\ \E j \in 1..Len(last.erased) :
       /\ last.erased[j].name = <<1>>
       /\ last.erased[j].parent = nullptr
       /\ last.erased[j].children = <<>>

-----------------------------------------------------------------------------
\* a step dispatches at most the next update in line, and only a step that
\* answers an update invokes a callback: the one callback of that update, when
\* it has callbacks
C23_OnceStep ==
  /\ hist'.dispatched \in {hist.dispatched, hist.dispatched + 1}
  /\ hist'.dispatched = hist.dispatched + 1 =>
       /\ Len(fibCalls') = 1
       /\ fibCalls'[1].seq = hist'.dispatched
  /\ hist'.answered \in {hist.answered, hist.answered + 1}
  /\ IF hist'.answered = hist.answered + 1
     THEN /\ Len(fibCalls) = 1
          /\ fibCalls[1].seq = hist'.answered
          /\ last'.cbs = IF fibCalls[1].cb
                         THEN <<[cb |-> IF last'.op = "onFibUpdateSuccess"
                                        THEN "onSuccess" ELSE "onFailure",
                                 seq |-> fibCalls[1].seq, reply |-> last'.reply]>>
                         ELSE <<>>
     ELSE last'.cbs = <<>>

\* the k-th update placed in the queue is eventually dispatched and answered
C23_Answered(k) ==
  (hist.submitted >= k) ~> (hist.dispatched >= k /\ hist.answered >= k)

(* C23: queue progress.  With a FIB updater that answers every call, every    *)
(* update placed in the queue is eventually dispatched, once, and answered,   *)
(* and the answer invokes the one callback of the update that matches it,     *)
(* once, when the update has callbacks; and as the updates of a run are       *)
(* finitely many, the Rib ends with an empty queue and nothing in flight.     *)
C23_QueueProgress ==
  /\ \A k \in 1..MaxUpdatesLive : C23_Answered(k)
  /\ [][C23_OnceStep]_vars
  /\ <>[](m_updateBatches = <<>> /\ ~m_isUpdateInProgress /\ fibCalls = <<>>)

\* three updates were placed in the queue and all three were answered, the last
\* one, which has no callbacks, with a failure: the queue is empty and nothing
\* is in flight
C23_Witness ==
  /\ hist.submitted = MaxUpdatesLive
  /\ hist.dispatched = MaxUpdatesLive
  /\ hist.answered = MaxUpdatesLive
  /\ last.op = "onFibUpdateFailure"
  /\ last.cbs = <<>>
  /\ m_updateBatches = <<>>
  /\ ~m_isUpdateInProgress

-----------------------------------------------------------------------------
(* C24: face removal covers pending registrations.  In SpecPending, where no  *)
(* REGISTER for a face is submitted once beginRemoveFace ran for it and every *)
(* reply is success: after beginRemoveFace(f), called in any state, also with *)
(* REGISTER updates for face f queued or in flight, once the queue is empty   *)
(* and nothing is in flight no entry holds a route with faceId f.             *)
C24_PendingCovered ==
  (/\ hist.down # <<>>
   /\ m_updateBatches = <<>>
   /\ ~m_isUpdateInProgress
   /\ fibCalls = <<>>)
  => routesOfFace(hist.down.faceId) = {}

-----------------------------------------------------------------------------
\* the (name, faceId, origin) of the routes of a table
keysOf(rib) == {<<x[1], x[2].faceId, x[2].origin>> : x \in routesOf(rib)}

\* the events of one kind the step fired for a name
entryFired(kind, name) ==
  {i \in 1..Len(last'.fired) :
     last'.fired[i].kind = kind /\ last'.fired[i].name = name}

\* the events of one kind the step fired for a (name, faceId, origin)
routeFired(kind, k) ==
  {i \in 1..Len(last'.fired) :
     /\ last'.fired[i].kind = kind
     /\ last'.fired[i].name = k[1]
     /\ last'.fired[i].route.faceId = k[2]
     /\ last'.fired[i].route.origin = k[3]}

\* the names and the (name, faceId, origin) the step's events are about
firedNames == {last'.fired[i].name : i \in 1..Len(last'.fired)}
firedKeys ==
  {<<last'.fired[i].name, last'.fired[i].route.faceId, last'.fired[i].route.origin>> :
     i \in {j \in 1..Len(last'.fired) :
              last'.fired[j].kind \in {"afterAddRoute", "beforeRemoveRoute"}}}

\* a step fires afterInsertEntry(name) once when the name enters the table and
\* never otherwise, afterEraseEntry(name) once when the name leaves the table
\* and never otherwise; the same for afterAddRoute and beforeRemoveRoute and
\* the (name, faceId, origin) of the routes; a route that is in the table before
\* and after the step, as one refreshed in place, has neither
C25_Step ==
  /\ \A n \in DOMAIN m_rib \cup DOMAIN m_rib' \cup firedNames :
       /\ Cardinality(entryFired("afterInsertEntry", n)) =
            IF n \notin DOMAIN m_rib /\ n \in DOMAIN m_rib' THEN 1 ELSE 0
       /\ Cardinality(entryFired("afterEraseEntry", n)) =
            IF n \in DOMAIN m_rib /\ n \notin DOMAIN m_rib' THEN 1 ELSE 0
  /\ \A k \in keysOf(m_rib) \cup keysOf(m_rib') \cup firedKeys :
       /\ Cardinality(routeFired("afterAddRoute", k)) =
            IF k \notin keysOf(m_rib) /\ k \in keysOf(m_rib') THEN 1 ELSE 0
       /\ Cardinality(routeFired("beforeRemoveRoute", k)) =
            IF k \in keysOf(m_rib) /\ k \notin keysOf(m_rib') THEN 1 ELSE 0

(* C25: observer event pairing.  The table starts empty, and every step fires *)
(* afterInsertEntry(name) exactly when the name enters the table and          *)
(* afterEraseEntry(name) exactly when it leaves, once each: so for each name  *)
(* the two events alternate, afterInsertEntry first, and the name is in the   *)
(* table exactly when its last event was afterInsertEntry.  Likewise for each *)
(* (name, faceId, origin), afterAddRoute and beforeRemoveRoute; a refresh in  *)
(* place fires neither.                                                       *)
C25_EventPairing == (m_rib = <<>>) /\ [][C25_Step]_vars

\* the third update took the last route of entry /1 away: the commit fired
\* beforeRemoveRoute for the route, which an earlier commit had announced with
\* afterAddRoute, and then afterEraseEntry for the name, and the name is out of
\* the table
C25_Witness ==
  /\ last.op = "onFibUpdateSuccess"
  /\ last.seq = 3
  /\ last.update.name = <<1>>
  /\ Len(last.fired) = 2
  /\ last.fired[1].kind = "beforeRemoveRoute"
  /\ last.fired[1].name = <<1>>
  /\ last.fired[2].kind = "afterEraseEntry"
  /\ last.fired[2].name = <<1>>
  /\ <<1>> \notin DOMAIN m_rib

=============================================================================
